---- MODULE Spec2Model ----
(***************************************************************************)
(* Model of MCPClient (server/app/mcp_client.py), the JSON-RPC client the  *)
(* Vestige HTTP bridge uses to talk to vestige-mcp.  The client is one     *)
(* object shared by the request handlers of an asyncio application: every  *)
(* coroutine runs without interruption from one await to the next, so one  *)
(* action of the model is the code executed between two awaits.  The       *)
(* backend is the environment: the outcome of every HTTP round trip is     *)
(* chosen nondeterministically when the response is handled.               *)
(***************************************************************************)
EXTENDS Integers, Sequences, FiniteSets, TLC

\* ---- bounds -----------------------------------------------------------
\* public methods are invoked only while fewer than MaxReqId request ids
\* have been taken (every method invoked runs to its end)
MaxReqId == 3
\* content fragments in one tools/call result
MaxFrags == 2
\* elements in one JSON-RPC batch array
MaxBatch == 2
\* lines in one SSE text
MaxLines == 3
MaxNow == 3     \* the monotonic clock reads 1..MaxNow

\* ---- universe ---------------------------------------------------------
Callers == {"a", "b"}
None == "None"
Open == "AsyncClient"
Sids == {"sid1", "sid2"}
\* values of the Mcp-Session-Id response header (absent, or a token)
HeaderVals == {None} \cup Sids
ToolLists == {<<>>, <<"search">>}
Msgs == {"NoValidSession", "InternalError", "SessionNotFound", "InvalidParams", "SessionExpired"}

\* ---- texts, as sequences of characters --------------------------------
TextNoValidSession ==
  <<"N","o"," ","v","a","l","i","d"," ","s","e","s","s","i","o","n">>
TextInternalError ==
  <<"I","n","t","e","r","n","a","l"," ","e","r","r","o","r">>
TextSessionNotFound ==
  <<"S","e","s","s","i","o","n"," ","n","o","t"," ","f","o","u","n","d">>
TextInvalidParams ==
  <<"I","n","v","a","l","i","d"," ","p","a","r","a","m","s">>
TextSessionExpired ==
  <<"S","e","s","s","i","o","n"," ","e","x","p","i","r","e","d">>
PrefixRpc ==
  <<"M","C","P"," ","e","r","r","o","r"," ","-","3","2","0","0","0",":"," ">>
PrefixHttp ==
  <<"V","e","s","t","i","g","e"," ","r","e","t","u","r","n","e","d"," ","H","T","T","P"," ","4","0","4",":"," ">>
PrefixConnect ==
  <<"C","a","n","n","o","t"," ","r","e","a","c","h"," ","V","e","s","t","i","g","e"," ","a","t"," ","h","t","t","p",":","/","/","l","o","c","a","l","h","o","s","t",":","3","1","0","0","/","m","c","p",":"," ">>
PrefixTimeout ==
  <<"T","i","m","e","o","u","t"," ","c","o","m","m","u","n","i","c","a","t","i","n","g"," ","w","i","t","h"," ","V","e","s","t","i","g","e"," ","a","t"," ","h","t","t","p",":","/","/","l","o","c","a","l","h","o","s","t",":","3","1","0","0","/","m","c","p",":"," ">>
PrefixNotifTimeout ==
  <<"T","i","m","e","o","u","t"," ","s","e","n","d","i","n","g"," ","n","o","t","i","f","i","c","a","t","i","o","n"," ","t","o"," ","V","e","s","t","i","g","e",":"," ">>
PrefixBadJson ==
  <<"I","n","v","a","l","i","d"," ","J","S","O","N"," ","f","r","o","m"," ","V","e","s","t","i","g","e",":"," ">>
TextNotInitialized ==
  <<"H","T","T","P"," ","c","l","i","e","n","t"," ","n","o","t"," ","i","n","i","t","i","a","l","i","z","e","d"," ","-"," ","c","a","l","l"," ","c","o","n","n","e","c","t","(",")"," ","f","i","r","s","t">>
KwSession ==
  <<"s","e","s","s","i","o","n">>
KwInvalid ==
  <<"i","n","v","a","l","i","d">>
KwNotFound ==
  <<"n","o","t"," ","f","o","u","n","d">>
KwNoValid ==
  <<"n","o"," ","v","a","l","i","d">>
UpperToLower ==
  [ch \in {"A","B","C","D","E","F","G","H","I","J","K","L","M","N","O","P","Q","R","S","T","U","V","W","X","Y","Z"} |->
     CASE ch = "A" -> "a"
       [] ch = "B" -> "b"
       [] ch = "C" -> "c"
       [] ch = "D" -> "d"
       [] ch = "E" -> "e"
       [] ch = "F" -> "f"
       [] ch = "G" -> "g"
       [] ch = "H" -> "h"
       [] ch = "I" -> "i"
       [] ch = "J" -> "j"
       [] ch = "K" -> "k"
       [] ch = "L" -> "l"
       [] ch = "M" -> "m"
       [] ch = "N" -> "n"
       [] ch = "O" -> "o"
       [] ch = "P" -> "p"
       [] ch = "Q" -> "q"
       [] ch = "R" -> "r"
       [] ch = "S" -> "s"
       [] ch = "T" -> "t"
       [] ch = "U" -> "u"
       [] ch = "V" -> "v"
       [] ch = "W" -> "w"
       [] ch = "X" -> "x"
       [] ch = "Y" -> "y"
       [] ch = "Z" -> "z"]

Text(m) ==
  CASE m = "NoValidSession" -> TextNoValidSession
    [] m = "InternalError" -> TextInternalError
    [] m = "SessionNotFound" -> TextSessionNotFound
    [] m = "InvalidParams" -> TextInvalidParams
    [] m = "SessionExpired" -> TextSessionExpired
    [] OTHER -> <<>>

\* str.lower()
Lower(s) ==
  [i \in 1..Len(s) |-> IF s[i] \in DOMAIN UpperToLower THEN UpperToLower[s[i]] ELSE s[i]]

\* the Python test `sub in s`
Contains(sub, s) ==
  \E i \in 1..(Len(s) - Len(sub) + 1) : SubSeq(s, i, i + Len(sub) - 1) = sub

\* ---- exceptions -------------------------------------------------------
\* An exception is [kind, src, m]: kind is the class raised, src the raise
\* statement, m the text the backend or the transport contributed.
NoErr == [kind |-> "none", src |-> "none", m |-> "none"]
NotInitErr == [kind |-> "MCPConnectionError", src |-> "notinit", m |-> "none"]
\* an httpx exception that _post_jsonrpc does not translate (ReadError,
\* RemoteProtocolError, ...): it is no MCPError
TransportErr == [kind |-> "httpx.TransportError", src |-> "raw", m |-> "none"]
\* isinstance(e, MCPError)
IsMCPError(e) == e.kind \in {"MCPError", "MCPConnectionError", "MCPToolError"}
ToolError(m) == [kind |-> "MCPToolError", src |-> "tool", m |-> m]
\* return values of the public methods, in the same shape
RetOk == [kind |-> "ok", src |-> "none", m |-> "none"]
RetTrue == [kind |-> "True", src |-> "none", m |-> "none"]
RetFalse == [kind |-> "False", src |-> "none", m |-> "none"]

\* str(exc)
Str(e) ==
  CASE e.src = "rpc" -> PrefixRpc \o Text(e.m)
    [] e.src = "http" -> PrefixHttp \o Text(e.m)
    [] e.src = "connect" -> PrefixConnect \o Text(e.m)
    [] e.src = "timeout" -> PrefixTimeout \o Text(e.m)
    [] e.src = "ntimeout" -> PrefixNotifTimeout \o Text(e.m)
    [] e.src = "badjson" -> PrefixBadJson \o Text(e.m)
    [] e.src = "notinit" -> TextNotInitialized
    [] e.src = "tool" -> Text(e.m)
    [] OTHER -> <<>>

\* call_tool's test on err_msg: "session" and one of the three markers
StaleMatch(err_msg) ==
  Contains(KwSession, err_msg)
    /\ (Contains(KwInvalid, err_msg) \/ Contains(KwNotFound, err_msg)
          \/ Contains(KwNoValid, err_msg))

ErrSrcs == {"rpc", "http", "connect", "timeout", "ntimeout", "badjson", "notinit", "tool"}

\* err_msg = str(exc).lower() and the test, tabulated: the <<src, m>> of the
\* exceptions that pass it
StaleTable ==
  UNION {IF StaleMatch(Lower(Str([kind |-> "none", src |-> x[1], m |-> x[2]])))
           THEN {x} ELSE {} : x \in ErrSrcs \X (Msgs \cup {"none"})}

\* call_tool's stale-session test on exception e
IsStaleSession(e) == <<e.src, e.m>> \in StaleTable

\* ---- state ------------------------------------------------------------
VARIABLES
  _req_id,                \* MCPClient._req_id
  _client,                \* MCPClient._client: None or the httpx.AsyncClient
  _connected,             \* MCPClient._connected
  _session_id,            \* MCPClient._session_id: None or the held token
  _available_tool_names,  \* MCPClient._available_tool_names
  op,          \* per caller: the public method it runs ("none": not in a call)
  pc,          \* per caller: the await it is suspended at ("idle": not in a call)
  retrying,    \* per caller: call_tool is inside its stale-session handler
  wire,        \* the message the latest step put on the wire (its
               \* Mcp-Session-Id header), NoMsg if that step sent none
  nInit,       \* per caller: initialize requests of this invocation
  nCall,       \* per caller: _send("tools/call") calls of this invocation
  firstFail,   \* per caller: how the first tools/call of call_tool failed
  fresh,       \* per caller: call_tool began before any connect() returned
  everConnected, \* some connect() has returned without raising
  lastTok,     \* token of the latest response that carried one, None once cleared
  sent,        \* ids of the requests put on the wire, in send order
  _connected_at, \* clock reading taken by connect(), 0 before the first one
  now,         \* time.monotonic()
  ev,          \* what the latest step did: the token that a received one
               \* replaced; the text of the tool error it raised, when that
               \* text would pass call_tool's stale-session test; whether it
               \* was a disconnect() that found no HTTP client to close, or
               \* an ensure_connected that reconnected a live client; what a
               \* health_check returned; whether the notification it
               \* handled was answered with an HTTP error status
  input,       \* the argument handed to a function checked on its own
  output       \* what that function gave back, NoOutput before it ran

clientVars ==
  <<_req_id, _client, _connected, _session_id, _available_tool_names, op, pc,
    retrying, wire, nInit, nCall, firstFail, fresh, everConnected,
    lastTok, sent, _connected_at, ev>>

vars == <<clientVars, now, input, output>>

NoInput == [fn |-> "none"]
NoOutput == [fn |-> "none"]

NoMsg == [sid |-> "nomsg"]
NoFail == [cls |-> "none", kind |-> "none", inits |-> 0]
NoEv ==
  [replaced |-> None, toolError |-> "none", noClient |-> FALSE, reinit |-> FALSE,
   probe |-> "none", notif4xx |-> FALSE]

RoundTripPcs == {"initialize", "notify", "tools_list", "tools_call"}

\* MCPClient.__init__
ClientInit ==
  /\ _req_id = 0
  /\ _client = None
  /\ _connected = FALSE
  /\ _session_id = None
  /\ _available_tool_names = <<>>
  /\ op = [c \in Callers |-> "none"]
  /\ pc = [c \in Callers |-> "idle"]
  /\ retrying = [c \in Callers |-> FALSE]
  /\ wire = NoMsg
  /\ nInit = [c \in Callers |-> 0]
  /\ nCall = [c \in Callers |-> 0]
  /\ firstFail = [c \in Callers |-> NoFail]
  /\ fresh = [c \in Callers |-> FALSE]
  /\ everConnected = FALSE
  /\ lastTok = None
  /\ sent = <<>>
  /\ _connected_at = 0
  /\ now = 1
  /\ ev = NoEv

Init ==
  /\ ClientInit
  /\ input = NoInput
  /\ output = NoOutput

\* MCPClient.alive
alive == _connected /\ _client # None

\* the uptime property
uptime == IF _connected_at # 0 THEN now - _connected_at ELSE 0

\* ---- the frame of one step --------------------------------------------
\* The code between two awaits runs on a record S holding the client's
\* fields, the caller's position and the bookkeeping of the step; Commit
\* writes S back.
Base(c) ==
  [op |-> op[c], pc |-> pc[c], retry |-> retrying[c], ret |-> NoErr,
   msg |-> NoMsg, exc |-> NoErr,
   rid |-> _req_id, cl |-> _client, conn |-> _connected, sess |-> _session_id,
   names |-> _available_tool_names, at |-> _connected_at,
   ninit |-> nInit[c], ncall |-> nCall[c], ff |-> firstFail[c], fresh |-> fresh[c],
   ever |-> everConnected, tok |-> lastTok, sentnow |-> 0,
   chg |-> None, nocl |-> FALSE, reinit |-> FALSE, n4xx |-> FALSE,
   dropped |-> None]

\* the frame of a caller that invokes public method o
Invoke(c, o) ==
  [Base(c) EXCEPT !.op = o, !.fresh = (o = "call_tool" /\ ~everConnected)]

\* When the public method has finished (S.ret set), the caller is back
\* outside the client.
Commit(c, S) ==
  LET fin == S.ret # NoErr
  IN /\ _req_id' = S.rid
     /\ _client' = S.cl
     /\ _connected' = S.conn
     /\ _session_id' = S.sess
     /\ _available_tool_names' = S.names
     /\ _connected_at' = S.at
     /\ op' = [op EXCEPT ![c] = IF fin THEN "none" ELSE S.op]
     /\ pc' = [pc EXCEPT ![c] = IF fin THEN "idle" ELSE S.pc]
     /\ retrying' = [retrying EXCEPT ![c] = IF fin THEN FALSE ELSE S.retry]
     /\ wire' = S.msg
     /\ nInit' = [nInit EXCEPT ![c] = IF fin THEN 0 ELSE S.ninit]
     /\ nCall' = [nCall EXCEPT ![c] = IF fin THEN 0 ELSE S.ncall]
     /\ firstFail' = [firstFail EXCEPT ![c] = IF fin THEN NoFail ELSE S.ff]
     /\ fresh' = [fresh EXCEPT ![c] = IF fin THEN FALSE ELSE S.fresh]
     /\ everConnected' = S.ever
     /\ lastTok' = S.tok
     /\ sent' = IF S.sentnow > 0 THEN Append(sent, S.sentnow) ELSE sent
     /\ ev' = [replaced |-> S.chg,
                toolError |-> IF S.ret.kind = "MCPToolError" /\ IsStaleSession(S.ret)
                              THEN S.ret.m ELSE "none",
                noClient |-> S.nocl, reinit |-> S.reinit,
                probe |-> IF S.op = "health_check" /\ fin THEN S.ret.kind ELSE "none",
                notif4xx |-> S.n4xx]
     /\ UNCHANGED <<now, input, output>>

\* an exception leaves the public method
Raise(S) ==
  [S EXCEPT !.ret = S.exc]

\* the public method returns v
Return(S, v) ==
  [S EXCEPT !.ret = v, !.exc = NoErr]

\* ---- the backend: outcomes of one HTTP POST -----------------------------
\* the protocolVersion connect() declares, and another one a backend may
\* answer with
ProtocolVersion == "2025-03-26"
OtherVersion == "2024-11-05"

\* ver is the protocolVersion of an initialize result
Outcome(t, m, sid, b, tools, isError) ==
  [t |-> t, m |-> m, sid |-> sid, b |-> b, tools |-> tools, isError |-> isError,
   ver |-> ProtocolVersion]

\* the error texts tried: every text in a tools/call response, where
\* call_tool inspects it; a stale-looking and a plain one in what the
\* transport raises there; one text elsewhere
MsgsFor(method, t) ==
  IF method # "tools_call" THEN {"NoValidSession"}
  ELSE IF t \in {"ConnectError", "Timeout"} THEN {"NoValidSession", "InternalError"}
  ELSE Msgs

\* the texts of the tool failures tried: a stale-looking and a plain one
ToolErrorTexts == {"NoValidSession", "InternalError"}

\* what `await self._client.post(...)` / raise_for_status() / the body can be
\* for a request of the given method
ReqOutcomes(method) ==
  UNION {{Outcome(t, m, None, "none", <<>>, FALSE) : m \in MsgsFor(method, t)} :
           t \in {"ConnectError", "Timeout", "HTTPStatus"}}
  \cup {Outcome("OtherError", "none", None, "none", <<>>, FALSE)}
  \cup {Outcome("OK", m, h, "error", <<>>, FALSE) :
          m \in MsgsFor(method, "OK"), h \in HeaderVals}
  \cup {Outcome("OK", "InternalError", h, "badjson", <<>>, FALSE) : h \in HeaderVals}
  \cup {Outcome("OK", "none", h, "result", tl, FALSE) :
          h \in HeaderVals,
          tl \in (IF method = "tools_list" THEN ToolLists ELSE {<<>>})}
  \cup {Outcome("OK", m, h, "result", <<>>, TRUE) :
          h \in HeaderVals,
          m \in (IF method = "tools_call" THEN ToolErrorTexts ELSE {})}
  \cup {[Outcome("OK", "none", h, "result", <<>>, FALSE) EXCEPT !.ver = OtherVersion] :
          h \in (IF method = "initialize" THEN HeaderVals ELSE {})}

\* a notification: the POST raises, or any response arrives (its status is
\* only logged)
NotifOutcomes ==
  {Outcome(t, m, None, "none", <<>>, FALSE) :
      t \in {"ConnectError", "Timeout"}, m \in MsgsFor("notify", "none")}
  \cup {Outcome("OtherError", "none", None, "none", <<>>, FALSE)}
  \cup {Outcome(t, "none", h, "none", <<>>, FALSE) :
          t \in {"Accepted", "Status4xx"}, h \in HeaderVals}

\* ---- MCPClient, low level ----------------------------------------------
\* bookkeeping: a response carried token sid
Received(S, sid) ==
  IF sid # None
  THEN [S EXCEPT !.tok = sid, !.chg = IF S.tok # sid THEN S.tok ELSE S.chg]
  ELSE S

\* (mutant) a token is adopted only while none is held
Capture_KeepFirst(S, sid) ==
  IF sid # None /\ S.sess = None THEN [S EXCEPT !.sess = sid] ELSE S

\* `if session_id: self._session_id = session_id`
Capture(S, sid) ==
  IF sid # None THEN [S EXCEPT !.sess = sid] ELSE S

\* _post_jsonrpc from the point the POST has completed with outcome o:
\* the updated frame, with exc the exception raised (NoErr: a result)
PostJsonrpcResponse(S, o) ==
  LET X(k, src) == [kind |-> k, src |-> src, m |-> o.m]
  IN CASE o.t = "ConnectError" ->
            [S EXCEPT !.conn = FALSE, !.exc = X("MCPConnectionError", "connect")]
       [] o.t = "Timeout" ->
            [S EXCEPT !.exc = X("MCPConnectionError", "timeout")]
       [] o.t = "HTTPStatus" ->
            [S EXCEPT !.exc = X("MCPError", "http")]
       [] o.t = "OtherError" ->
            [S EXCEPT !.exc = TransportErr]
       [] OTHER ->
            LET S1 == Capture(Received(S, o.sid), o.sid)
            IN CASE o.b = "badjson" -> [S1 EXCEPT !.exc = X("MCPError", "badjson")]
                 [] o.b = "error" -> [S1 EXCEPT !.exc = X("MCPError", "rpc")]
                 [] OTHER -> [S1 EXCEPT !.exc = NoErr]

\* (mutant) an HTTP error status of the notification raises, as
\* raise_for_status() does for requests
PostNotificationResponse_RaiseForStatus(S, o) ==
  LET X(k, src) == [kind |-> k, src |-> src, m |-> o.m]
  IN CASE o.t = "ConnectError" ->
            [S EXCEPT !.conn = FALSE, !.exc = X("MCPConnectionError", "connect")]
       [] o.t = "Timeout" ->
            [S EXCEPT !.exc = X("MCPConnectionError", "ntimeout")]
       [] o.t = "OtherError" ->
            [S EXCEPT !.exc = TransportErr]
       [] o.t = "Status4xx" ->
            [S EXCEPT !.exc = X("MCPError", "http")]
       [] OTHER -> [Capture(Received(S, o.sid), o.sid) EXCEPT !.exc = NoErr]

\* _post_jsonrpc_notification from the point the POST has completed
PostNotificationResponse(S, o) ==
  LET X(k, src) == [kind |-> k, src |-> src, m |-> o.m]
  IN CASE o.t = "ConnectError" ->
            [S EXCEPT !.conn = FALSE, !.exc = X("MCPConnectionError", "connect")]
       [] o.t = "Timeout" ->
            [S EXCEPT !.exc = X("MCPConnectionError", "ntimeout")]
       [] o.t = "OtherError" ->
            [S EXCEPT !.exc = TransportErr]
       [] OTHER -> [Capture(Received(S, o.sid), o.sid) EXCEPT !.exc = NoErr]

\* (mutant) the id is computed but the counter is not advanced
Send_NoIncrement(S, method) ==
  IF S.cl = None
  THEN [S EXCEPT !.exc = NotInitErr]
  ELSE [S EXCEPT !.pc = method, !.msg = [sid |-> S.sess],
                 !.sentnow = S.rid + 1, !.exc = NoErr]

\* _send up to the await of the POST: takes the next id; _post_jsonrpc raises
\* without sending when no HTTP client is held, else the request goes out
\* with the held session token as header
Send(S, method) ==
  LET S1 == [S EXCEPT !.rid = @ + 1]
  IN IF S1.cl = None
     THEN [S1 EXCEPT !.exc = NotInitErr]
     ELSE [S1 EXCEPT !.pc = method, !.msg = [sid |-> S1.sess],
                     !.sentnow = S1.rid, !.exc = NoErr]

\* _send_notification up to the await of the POST: no id
SendNotification(S) ==
  IF S.cl = None
  THEN [S EXCEPT !.exc = NotInitErr]
  ELSE [S EXCEPT !.pc = "notify", !.msg = [sid |-> S.sess],
                 !.exc = NoErr]

\* ---- MCPClient, handshake ----------------------------------------------
\* connect() up to the await of initialize: a new AsyncClient replaces the
\* held one
connect(S) ==
  Send([S EXCEPT !.dropped = S.cl, !.cl = Open, !.ninit = @ + 1], "initialize")

\* ---- MCPClient, tool invocation -----------------------------------------
\* (mutant) the handler also reconnects when the retry fails
CallToolExcept_Unbounded(S) ==
  LET stale == IsMCPError(S.exc) /\ IsStaleSession(S.exc)
      S1 == [S EXCEPT !.ff = [cls |-> IF stale THEN "stale" ELSE "other",
                              kind |-> S.exc.kind, inits |-> S.ninit]]
  IN IF stale
     THEN connect([S1 EXCEPT !.conn = FALSE, !.sess = None, !.retry = TRUE,
                             !.tok = None, !.exc = NoErr])
     ELSE Raise(S1)

\* call_tool's `except MCPError as exc` around the first tools/call; the
\* second tools/call is sent from inside the handler, so what it raises
\* leaves call_tool
CallToolExcept(S) ==
  IF S.retry \/ ~IsMCPError(S.exc)
  THEN Raise(S)
  ELSE LET stale == IsStaleSession(S.exc)
           S1 == [S EXCEPT !.ff = [cls |-> IF stale THEN "stale" ELSE "other",
                                   kind |-> S.exc.kind, inits |-> S.ninit]]
       IN IF stale
          THEN connect([S1 EXCEPT !.conn = FALSE, !.sess = None, !.retry = TRUE,
                                  !.tok = None, !.exc = NoErr])
          ELSE Raise(S1)

\* call_tool's `await self._send("tools/call", ...)`, up to the await
CallToolSend(S) ==
  LET S1 == Send([S EXCEPT !.ncall = @ + 1], "tools_call")
  IN IF S1.exc # NoErr THEN CallToolExcept(S1) ELSE S1

\* (mutant) the tool error is raised where the `except MCPError` of the
\* first tools/call catches it
CallToolResult_InsideTry(S, o) ==
  IF o.isError
  THEN CallToolExcept([S EXCEPT !.exc = ToolError(o.m)])
  ELSE Return(S, RetOk)

\* call_tool after a tools/call round trip returned result o
CallToolResult(S, o) ==
  IF o.isError THEN Raise([S EXCEPT !.exc = ToolError(o.m)]) ELSE Return(S, RetOk)

\* ---- MCPClient, handshake continued -------------------------------------
\* connect() has returned without raising: the public connect() is done,
\* call_tool goes on to its tools/call
ConnectReturned(S) ==
  LET S1 == [S EXCEPT !.ever = TRUE]
  IN IF S1.op = "connect" THEN Return(S1, RetOk) ELSE CallToolSend(S1)

\* _discover_tools up to the await of tools/list; a request that cannot be
\* sent is caught like any MCPError
DiscoverTools(S) ==
  LET S1 == Send(S, "tools_list")
  IN IF S1.exc # NoErr
     THEN ConnectReturned([S1 EXCEPT !.names = <<>>, !.exc = NoErr])
     ELSE S1

\* _discover_tools after its round trip: S carries the exception, o the
\* result; `except MCPError` lets any other exception leave connect()
DiscoverToolsDone(S, o) ==
  IF S.exc = NoErr
  THEN ConnectReturned([S EXCEPT !.names = o.tools])
  ELSE IF IsMCPError(S.exc)
  THEN ConnectReturned([S EXCEPT !.names = <<>>, !.exc = NoErr])
  ELSE Raise(S)

\* connect() after initialize returned a result: send the notification
ConnectAfterInitialize(S) ==
  LET S1 == SendNotification(S)
  IN IF S1.exc # NoErr THEN Raise(S1) ELSE S1

\* connect() after the notification was posted: connected, then discovery
ConnectAfterNotification(S) ==
  DiscoverTools([S EXCEPT !.conn = TRUE, !.at = now])

\* (mutant) ensure_connected reconnects only a client that is not alive
EnsureConnected_AliveOnly(S) ==
  IF ~(S.conn /\ S.cl # None)
  THEN connect(S)
  ELSE S

\* ensure_connected up to its first await (pc stays "idle" if it sends nothing)
EnsureConnected(S) ==
  IF ~(S.conn /\ S.cl # None)
  THEN connect(S)
  ELSE IF S.sess = None /\ S.conn
       THEN connect([S EXCEPT !.reinit = TRUE])
       ELSE S

\* ---- actions: a caller invokes a public method --------------------------
\* Callers are anonymous: when nobody is inside the client the next caller
\* is named "a", and "b" is the one that arrives while "a" is inside.
CanStart(c) ==
  /\ pc[c] = "idle"
  /\ _req_id < MaxReqId
  /\ c = "b" => pc["a"] # "idle"

StartConnect(c) ==
  /\ CanStart(c)
  /\ Commit(c, connect(Invoke(c, "connect")))

StartCallTool(c) ==
  /\ CanStart(c)
  /\ LET S1 == EnsureConnected(Invoke(c, "call_tool"))
     IN Commit(c, IF S1.pc = "initialize" THEN S1 ELSE CallToolSend(S1))

\* (mutant) health_check catches MCPError only
HealthCheckDone_ExceptMCPError(S) ==
  IF S.exc = NoErr THEN Return(S, RetTrue)
  ELSE IF IsMCPError(S.exc) THEN Return(S, RetFalse)
  ELSE Raise(S)

\* health_check after its round trip: `except Exception` turns whatever was
\* raised into False
HealthCheckDone(S) ==
  Return(S, IF S.exc # NoErr THEN RetFalse ELSE RetTrue)

\* health_check up to the await of tools/list: a client is created when
\* none is held
health_check(S) ==
  LET S1 == IF S.cl = None THEN [S EXCEPT !.cl = Open] ELSE S
      S2 == Send(S1, "tools_list")
  IN IF S2.exc # NoErr THEN HealthCheckDone(S2) ELSE S2

StartHealthCheck(c) ==
  /\ CanStart(c)
  /\ Commit(c, health_check(Invoke(c, "health_check")))

\* (mutant) disconnect() keeps the session token
DisconnectFinish_KeepSession(S) ==
  Return([S EXCEPT !.cl = None, !.conn = FALSE], RetOk)

\* disconnect() after aclose() (or with no client held)
DisconnectFinish(S) ==
  Return([S EXCEPT !.cl = None, !.conn = FALSE, !.sess = None,
                   !.tok = None], RetOk)

\* disconnect() up to `await self._client.aclose()`, or to its end when no
\* client is held
disconnect(S) ==
  IF S.cl # None
  THEN [S EXCEPT !.pc = "aclose"]
  ELSE DisconnectFinish([S EXCEPT !.nocl = TRUE])

StartDisconnect(c) ==
  /\ CanStart(c)
  /\ LET S0 == Invoke(c, "disconnect")
     IN Commit(c, disconnect(S0))

\* ---- what a caller does when its awaited POST completes ----------------
\* (S is the caller's frame at the await, o the outcome of the POST)
\* (connect() reads only capabilities.tools of the result, for its log line)
OnInitialize(S, o) ==
  LET S1 == PostJsonrpcResponse(S, o)
  IN IF S1.exc # NoErr THEN Raise(S1) ELSE ConnectAfterInitialize(S1)

OnNotify(S, o) ==
  LET S1 == PostNotificationResponse(S, o)
  IN IF S1.exc # NoErr
     THEN Raise(S1)
     ELSE ConnectAfterNotification([S1 EXCEPT !.n4xx = (o.t = "Status4xx")])

\* tools/list is awaited by _discover_tools or by health_check
OnToolsList(S, o) ==
  LET S1 == PostJsonrpcResponse(S, o)
  IN IF S1.op = "health_check"
     THEN HealthCheckDone(S1)
     ELSE DiscoverToolsDone(S1, o)

OnToolsCall(S, o) ==
  LET S1 == PostJsonrpcResponse(S, o)
  IN IF S1.exc # NoErr THEN CallToolExcept(S1) ELSE CallToolResult(S1, o)

\* ---- actions: an awaited POST completes ---------------------------------
RespInitialize(c) ==
  /\ pc[c] = "initialize"
  /\ \E o \in ReqOutcomes("initialize") : Commit(c, OnInitialize(Base(c), o))

RespNotify(c) ==
  /\ pc[c] = "notify"
  /\ \E o \in NotifOutcomes : Commit(c, OnNotify(Base(c), o))

RespToolsList(c) ==
  /\ pc[c] = "tools_list"
  /\ \E o \in ReqOutcomes("tools_list") : Commit(c, OnToolsList(Base(c), o))

RespToolsCall(c) ==
  /\ pc[c] = "tools_call"
  /\ \E o \in ReqOutcomes("tools_call") : Commit(c, OnToolsCall(Base(c), o))

\* aclose() has returned
RespAclose(c) ==
  /\ pc[c] = "aclose"
  /\ Commit(c, DisconnectFinish(Base(c)))

\* one step of caller c
Step(c) ==
  \/ StartConnect(c)
  \/ StartCallTool(c)
  \/ StartHealthCheck(c)
  \/ StartDisconnect(c)
  \/ RespInitialize(c)
  \/ RespNotify(c)
  \/ RespToolsList(c)
  \/ RespToolsCall(c)
  \/ RespAclose(c)

Next == \E c \in Callers : Step(c)

Spec == Init /\ [][Next]_vars

\* ---- the client used by one caller while time passes ------------------
\* the monotonic clock advances between two steps of the event loop
Tick ==
  /\ now < MaxNow
  /\ now' = now + 1
  /\ UNCHANGED <<clientVars, input, output>>

ClockNext == Step("a") \/ Tick

ClockSpec == Init /\ [][ClockNext]_vars

\* ---- the client used by one caller that reads tool_names ----------------
\* Lists are objects: a heap maps references to list values, and the
\* client's _available_tool_names is the list at reference CatalogRef.
CatalogRef == 1

\* a reference not yet in heap h
NewRef(h) == Cardinality(DOMAIN h) + 1

\* (mutant) the property hands out the client's own list
ToolNames_Alias(h) ==
  [heap |-> h, ret |-> CatalogRef]

\* the tool_names property: list(self._available_tool_names) is a new list
\* with the same elements
ToolNames(h) ==
  [heap |-> h @@ (NewRef(h) :> h[CatalogRef]), ret |-> NewRef(h)]

\* what a consumer may do to a list it was given
Mutations == {"append", "clear", "setitem"}

Mutate(l, m) ==
  CASE m = "append" -> Append(l, "intruder")
    [] m = "clear" -> <<>>
    [] m = "setitem" -> IF l = <<>> THEN l ELSE [l EXCEPT ![1] = "intruder"]

\* a consumer reads tool_names, mutates the list it got, and reads again
ReadToolNames ==
  \E m \in Mutations :
    LET h0 == (CatalogRef :> _available_tool_names)
        r1 == ToolNames(h0)
        h1 == [r1.heap EXCEPT ![r1.ret] = Mutate(@, m)]
        r2 == ToolNames(h1)
    IN /\ output' = [fn |-> "tool_names", before |-> _available_tool_names,
                      afterRead |-> r1.heap[CatalogRef],
                      returned |-> h1[r1.ret],
                      second |-> r2.heap[r2.ret]]
       /\ _available_tool_names' = r2.heap[CatalogRef]
       /\ UNCHANGED <<_req_id, _client, _connected, _session_id, op, pc,
                      retrying, wire, nInit, nCall, firstFail, fresh,
                      everConnected, lastTok, sent, _connected_at, ev,
                      now, input>>

ReaderNext == Step("a") \/ ReadToolNames

ReaderSpec == Init /\ [][ReaderNext]_vars

\* ---- functions checked on their own ------------------------------------
\* A Python dict is a record whose fields are options: <<>> for an absent
\* key, <<v>> for a key with value v.
Absent == <<>>
Some(v) == <<v>>

\* d.get(k, default), on the option held under k
Get(opt, default) == IF opt = Absent THEN default ELSE opt[1]

\* sep.join(ss)
RECURSIVE Join(_, _)
Join(sep, ss) ==
  IF ss = <<>> THEN <<>>
  ELSE IF Len(ss) = 1 THEN ss[1]
  ELSE ss[1] \o sep \o Join(sep, Tail(ss))

\* content fragments of a tools/call result: three texts and an image,
\* which has no "text"
FragA == [type |-> "text", text |-> Some(<<"a">>)]
FragB == [type |-> "text", text |-> Some(<<"b">>)]
FragCD == [type |-> "text", text |-> Some(<<"c", "d">>)]
FragImage == [type |-> "image", text |-> Absent]
Fragments == {FragA, FragB, FragCD, FragImage}

SeqsUpTo(S, n) == UNION {[1..k -> S] : k \in 0..n}

\* the result objects of tools/call: isError and content each present or not
ToolResults ==
  {[isError |-> e, content |-> c] :
     e \in {Absent, Some(TRUE), Some(FALSE)},
     c \in {Absent} \cup {Some(fs) : fs \in SeqsUpTo(Fragments, MaxFrags)}}

\* (mutant) only the first fragment's text becomes the message
CallToolReturn_FirstText(resp) ==
  IF Get(resp.isError, FALSE)
  THEN LET content == Get(resp.content, <<>>)
       IN [raises |-> "MCPToolError",
           message |-> IF content = <<>> THEN <<>> ELSE Get(content[1].text, <<>>),
           content |-> <<>>]
  ELSE [raises |-> "none", message |-> <<>>, content |-> Get(resp.content, <<>>)]

\* call_tool from `if resp.get("isError")` on: what it raises or returns
CallToolReturn(resp) ==
  IF Get(resp.isError, FALSE)
  THEN LET content == Get(resp.content, <<>>)
           texts == [i \in 1..Len(content) |-> Get(content[i].text, <<>>)]
       IN [raises |-> "MCPToolError", message |-> Join(<<" ">>, texts),
           content |-> <<>>]
  ELSE [raises |-> "none", message |-> <<>>, content |-> Get(resp.content, <<>>)]

\* JSON ids: Python compares them by type and value, so the number 1 and
\* the string "1" differ, and an element without id has id None
IntId(n) == [type |-> "int", v |-> n]
StrId(n) == [type |-> "str", v |-> n]
PyNone == [type |-> "NoneType", v |-> "None"]

\* the id of the request whose response is decoded
RequestId == IntId("1")

\* the response objects tried: id, result and error each present or not
ResponseObjects ==
  {[id |-> i, result |-> r, error |-> e] :
     i \in {Absent, Some(IntId("1")), Some(IntId("2")), Some(StrId("1"))},
     r \in {Absent, Some("r1"), Some("r2")},
     e \in {Absent, Some("e1")}}

Batches == SeqsUpTo(ResponseObjects, MaxBatch)

\* `for item in data: if item.get("id") == msg.get("id")`: the index of the
\* first such item from i on, 0 when the loop ends without break
RECURSIVE ScanForId(_, _, _)
ScanForId(data, id, i) ==
  IF i > Len(data) THEN 0
  ELSE IF Get(data[i].id, PyNone) = id THEN i
  ELSE ScanForId(data, id, i + 1)

\* `for item in data: if "result" in item`, likewise
RECURSIVE ScanForResult(_, _)
ScanForResult(data, i) ==
  IF i > Len(data) THEN 0
  ELSE IF data[i].result # Absent THEN i
  ELSE ScanForResult(data, i + 1)

\* (mutant) the first result-bearing item is taken whatever the ids
PickFromBatch_ResultFirst(data, id) ==
  LET k == ScanForResult(data, 1)
  IN IF k # 0 THEN k ELSE ScanForId(data, id, 1)

\* the item the batch branch of _post_jsonrpc assigns to data (0: it raises)
PickFromBatch(data, id) ==
  LET k == ScanForId(data, id, 1)
  IN IF k # 0 THEN k ELSE ScanForResult(data, 1)

\* _post_jsonrpc on the response object: `if "error" in data: raise`, else
\* `data.get("result", {})`
DecodeObject(item) ==
  IF item.error # Absent
  THEN [raises |-> "MCPError", src |-> "rpc", result |-> "none"]
  ELSE [raises |-> "none", src |-> "none", result |-> Get(item.result, "{}")]

\* _post_jsonrpc from `if isinstance(data, list)` on, for a batch
DecodeBatch(data, id) ==
  LET k == PickFromBatch(data, id)
  IN IF k = 0
     THEN [raises |-> "MCPError", src |-> "batch", result |-> "none"]
     ELSE DecodeObject(data[k])

\* ---- _parse_sse_json, on texts made of these lines ----------------------
LineData1 == <<"d", "a", "t", "a", ":", " ", "1">>
\* no space after the colon, blanks around the line, a carriage return
LineData2 == <<" ", "d", "a", "t", "a", ":", "2", " ", "\r">>
LineBadJson == <<"d", "a", "t", "a", ":", " ", "{">>
LineNoPayload == <<"d", "a", "t", "a", ":", " ">>
LineEvent == <<"e", "v", "e", "n", "t", ":", " ", "m">>
LineIdOnly == <<"i", "d", ":", " ", "1">>
LineBlank == <<>>
\* a line that is a JSON text by itself
LineJson1 == <<"1">>

LineNames == {"data1", "data2", "badjson", "nopayload", "event", "id", "blank"}

LineText(n) ==
  CASE n = "data1" -> LineData1
    [] n = "data2" -> LineData2
    [] n = "badjson" -> LineBadJson
    [] n = "nopayload" -> LineNoPayload
    [] n = "event" -> LineEvent
    [] n = "id" -> LineIdOnly
    [] n = "json1" -> LineJson1
    [] OTHER -> LineBlank

\* the text of the response: the lines, a line feed between neighbours
SseText(names) ==
  Join(<<"\n">>, [i \in 1..Len(names) |-> LineText(names[i])])

Whitespace == {" ", "\t", "\n", "\r"}

\* str.splitlines(), for the line ends "\n", "\r" and "\r\n": cur is the
\* line being read, i the next character; no final empty line
RECURSIVE SplitLinesFrom(_, _, _)
SplitLinesFrom(text, i, cur) ==
  IF i > Len(text)
  THEN IF cur = <<>> THEN <<>> ELSE <<cur>>
  ELSE IF text[i] = "\r" /\ i < Len(text) /\ text[i + 1] = "\n"
  THEN <<cur>> \o SplitLinesFrom(text, i + 2, <<>>)
  ELSE IF text[i] \in {"\n", "\r"}
  THEN <<cur>> \o SplitLinesFrom(text, i + 1, <<>>)
  ELSE SplitLinesFrom(text, i + 1, Append(cur, text[i]))

SplitLines(text) == SplitLinesFrom(text, 1, <<>>)

\* str.strip()
RECURSIVE Strip(_)
Strip(s) ==
  IF s = <<>> THEN s
  ELSE IF Head(s) \in Whitespace THEN Strip(Tail(s))
  ELSE IF s[Len(s)] \in Whitespace THEN Strip(SubSeq(s, 1, Len(s) - 1))
  ELSE s

\* str.startswith()
StartsWith(s, prefix) ==
  Len(s) >= Len(prefix) /\ SubSeq(s, 1, Len(prefix)) = prefix

\* json.loads on the payloads that occur: "1" and "2" are JSON values,
\* anything else here raises JSONDecodeError
JsonLoads(payload) ==
  IF payload \in {<<"1">>, <<"2">>}
  THEN [ok |-> TRUE, value |-> payload[1]]
  ELSE [ok |-> FALSE, value |-> "none"]

\* the loop of _parse_sse_json over the lines from the i-th on: results
RECURSIVE SseResults(_, _)
SseResults(lines, i) ==
  IF i > Len(lines) THEN <<>>
  ELSE LET line == Strip(lines[i])
           payload == Strip(SubSeq(line, 6, Len(line)))
           rest == SseResults(lines, i + 1)
       IN IF StartsWith(line, <<"d", "a", "t", "a", ":">>) /\ payload # <<>>
             /\ JsonLoads(payload).ok
          THEN <<JsonLoads(payload).value>> \o rest
          ELSE rest

\* what a Python function returns: None, a JSON value, or a list of them
PyNoneValue == [shape |-> "None", items |-> <<>>]
PyValue(v) == [shape |-> "value", items |-> <<v>>]
PyList(vs) == [shape |-> "list", items |-> vs]

\* (mutant) a malformed payload ends the extraction
RECURSIVE SseResults_AbortOnBadJson(_, _)
SseResults_AbortOnBadJson(lines, i) ==
  IF i > Len(lines) THEN <<>>
  ELSE LET line == Strip(lines[i])
           payload == Strip(SubSeq(line, 6, Len(line)))
       IN IF StartsWith(line, <<"d", "a", "t", "a", ":">>) /\ payload # <<>>
          THEN IF JsonLoads(payload).ok
               THEN <<JsonLoads(payload).value>> \o SseResults_AbortOnBadJson(lines, i + 1)
               ELSE <<>>
          ELSE SseResults_AbortOnBadJson(lines, i + 1)

\* (mutant) _parse_sse_json that stops at the first malformed payload
ParseSseJson_Abort(text) ==
  LET results == SseResults_AbortOnBadJson(SplitLines(text), 1)
  IN IF Len(results) = 1 THEN PyValue(results[1])
     ELSE IF Len(results) > 1 THEN PyList(results)
     ELSE PyNoneValue

\* MCPClient._parse_sse_json
ParseSseJson(text) ==
  LET results == SseResults(SplitLines(text), 1)
  IN IF Len(results) = 1 THEN PyValue(results[1])
     ELSE IF Len(results) > 1 THEN PyList(results)
     ELSE PyNoneValue

\* ---- _post_jsonrpc, decoding the body ------------------------------------
TextEventStream == <<"t", "e", "x", "t", "/", "e", "v", "e", "n", "t", "-", "s", "t", "r", "e", "a", "m">>

\* the content-type header: missing, JSON, an event stream without and with
\* a parameter
ContentTypeNames == {"missing", "json", "sse", "sse-charset"}

ContentType(n) ==
  CASE n = "json" -> Some(<<"a", "p", "p", "l", "i", "c", "a", "t", "i", "o", "n", "/", "j", "s", "o", "n">>)
    [] n = "sse" -> Some(TextEventStream)
    [] n = "sse-charset" -> Some(TextEventStream \o <<";", " ", "c", "h", "a", "r", "s", "e", "t", "=", "u", "t", "f", "-", "8">>)
    [] OTHER -> Absent

\* the lines a body is made of
BodyLineNames == {"json1", "data1", "data2", "badjson", "event", "blank"}

\* response.json(): json.loads of the body, which allows white space around
\* the value
ResponseJson(text) == JsonLoads(Strip(text))

\* (mutant) a body that is not JSON raises at once
DecodeBody_NoFallback(headers, text) ==
  LET content_type == Get(headers, <<>>)
  IN IF Contains(TextEventStream, content_type)
     THEN LET data == ParseSseJson(text)
          IN IF data = PyNoneValue
             THEN [raises |-> "MCPError", src |-> "nosse", data |-> PyNoneValue]
             ELSE [raises |-> "none", src |-> "none", data |-> data]
     ELSE IF ResponseJson(text).ok
     THEN [raises |-> "none", src |-> "none", data |-> PyValue(ResponseJson(text).value)]
     ELSE [raises |-> "MCPError", src |-> "badjson", data |-> PyNoneValue]

\* _post_jsonrpc from `content_type = ...` to the decoded data: headers is
\* the content-type header, text the body
DecodeBody(headers, text) ==
  LET content_type == Get(headers, <<>>)
  IN IF Contains(TextEventStream, content_type)
     THEN LET data == ParseSseJson(text)
          IN IF data = PyNoneValue
             THEN [raises |-> "MCPError", src |-> "nosse", data |-> PyNoneValue]
             ELSE [raises |-> "none", src |-> "none", data |-> data]
     ELSE IF ResponseJson(text).ok
     THEN [raises |-> "none", src |-> "none", data |-> PyValue(ResponseJson(text).value)]
     ELSE LET data == ParseSseJson(text)
          IN IF data = PyNoneValue
             THEN [raises |-> "MCPError", src |-> "badjson", data |-> PyNoneValue]
             ELSE [raises |-> "none", src |-> "none", data |-> data]

\* ---- BearerAuthMiddleware.dispatch ---------------------------------------
\* _PUBLIC_PATHS
PublicPaths == {"/health", "/readyz", "/docs", "/openapi.json", "/redoc"}

\* the paths requested: the public ones, a protected route, and a path that
\* only looks like a public one and has no route
Paths == PublicPaths \cup {"/protected", "/healthz"}

\* the configured token, and a wrong one
TextToken == <<"s", "3", "c">>
TextWrong == <<"s", "3", "x">>
TextBearer == <<"B", "e", "a", "r", "e", "r", " ">>
TextTrue == <<"t", "r", "u", "e">>

\* os.environ: each variable unset, or set to one of these values
TokenValues == {Absent, Some(<<>>), Some(TextToken)}
AnonValues ==
  {Absent, Some(TextTrue), Some(<<"T", "R", "U", "E">>), Some(<<"T", "r", "u", "e">>),
   Some(<<"f", "a", "l", "s", "e">>), Some(<<"1">>), Some(<<>>)}

\* the Authorization header: missing, right, wrong token, scheme in another
\* case, another scheme, no scheme, something after the token, no token
AuthValues ==
  {Absent, Some(TextBearer \o TextToken), Some(TextBearer \o TextWrong),
   Some(<<"b", "e", "a", "r", "e", "r", " ">> \o TextToken),
   Some(<<"B", "a", "s", "i", "c", " ">> \o TextToken),
   Some(TextToken), Some(TextBearer \o TextToken \o <<" ">>), Some(TextBearer)}

DispatchInputs ==
  {[token |-> t, anon |-> a, path |-> p, auth |-> h] :
     t \in TokenValues, a \in AnonValues, p \in Paths, h \in AuthValues}

\* a JSONResponse of the middleware: the handler is not called
Refuse(status) == [status |-> status, reached |-> FALSE]

\* `await call_next(request)`: the application answers (every path tried has
\* a route except /healthz)
CallNext(req) ==
  [status |-> IF req.path = "/healthz" THEN 404 ELSE 200, reached |-> TRUE]

\* (mutant) the provided token only has to begin with the expected one
CompareDigest_Prefix(provided, expected) ==
  StartsWith(provided, expected)

\* secrets.compare_digest(provided.encode(), expected.encode())
CompareDigest(provided, expected) ==
  provided = expected

\* (mutant) any value of VESTIGE_ALLOW_ANONYMOUS allows anonymous access
AllowAnonymous_AnyValue(req) ==
  req.anon # Absent

\* os.environ.get("VESTIGE_ALLOW_ANONYMOUS", "").lower() == "true"
AllowAnonymous(req) ==
  Lower(Get(req.anon, <<>>)) = TextTrue

\* dispatch once a non-empty token is configured
DispatchConfigured(req, expected) ==
  IF req.path \in PublicPaths
  THEN CallNext(req)
  ELSE LET auth == Get(req.auth, <<>>)
       IN IF ~StartsWith(auth, TextBearer)
          THEN Refuse(401)
          ELSE IF ~CompareDigest(SubSeq(auth, 8, Len(auth)), expected)
          THEN Refuse(401)
          ELSE CallNext(req)

\* (mutant) anonymous access still goes through the public-path and header
\* checks
Dispatch_AnonymousChecksHeader(req) ==
  LET token_is_set == req.token # Absent
      expected == Get(req.token, <<>>)
  IN IF token_is_set /\ expected = <<>>
     THEN Refuse(500)
     ELSE IF ~token_is_set
     THEN IF AllowAnonymous(req) THEN DispatchConfigured(req, expected) ELSE Refuse(500)
     ELSE DispatchConfigured(req, expected)

\* BearerAuthMiddleware.dispatch on a request under an environment
Dispatch(req) ==
  LET token_is_set == req.token # Absent
      expected == Get(req.token, <<>>)
  IN IF token_is_set /\ expected = <<>>
     THEN Refuse(500)
     ELSE IF ~token_is_set
     THEN IF AllowAnonymous(req) THEN CallNext(req) ELSE Refuse(500)
     ELSE DispatchConfigured(req, expected)

FnInputs ==
  {[fn |-> "call_tool", arg |-> r] : r \in ToolResults}
  \cup {[fn |-> "batch", arg |-> b] : b \in Batches}
  \cup {[fn |-> "dispatch", arg |-> q] : q \in DispatchInputs}
  \cup {[fn |-> "decode", ct |-> t, arg |-> SseText(ns), lines |-> ns] :
          t \in ContentTypeNames, ns \in SeqsUpTo(BodyLineNames, MaxLines)}
  \cup {[fn |-> "sse", arg |-> SseText(ns), lines |-> ns] :
          ns \in SeqsUpTo(LineNames, MaxLines)}

FnInit ==
  /\ ClientInit
  /\ input \in FnInputs
  /\ output = NoOutput

ApplyCallToolReturn ==
  /\ input.fn = "call_tool" /\ output = NoOutput
  /\ output' = [fn |-> "call_tool", val |-> CallToolReturn(input.arg)]
  /\ UNCHANGED <<clientVars, now, input>>

ApplyDecodeBatch ==
  /\ input.fn = "batch" /\ output = NoOutput
  /\ output' = [fn |-> "batch", val |-> DecodeBatch(input.arg, RequestId)]
  /\ UNCHANGED <<clientVars, now, input>>

ApplyParseSseJson ==
  /\ input.fn = "sse" /\ output = NoOutput
  /\ output' = [fn |-> "sse", val |-> ParseSseJson(input.arg)]
  /\ UNCHANGED <<clientVars, now, input>>

ApplyDispatch ==
  /\ input.fn = "dispatch" /\ output = NoOutput
  /\ output' = [fn |-> "dispatch", val |-> Dispatch(input.arg)]
  /\ UNCHANGED <<clientVars, now, input>>

ApplyDecodeBody ==
  /\ input.fn = "decode" /\ output = NoOutput
  /\ output' = [fn |-> "decode", val |-> DecodeBody(ContentType(input.ct), input.arg)]
  /\ UNCHANGED <<clientVars, now, input>>

FnNext ==
  \/ ApplyCallToolReturn
  \/ ApplyDecodeBatch
  \/ ApplyParseSseJson
  \/ ApplyDispatch
  \/ ApplyDecodeBody

FnSpec == FnInit /\ [][FnNext]_vars

\* ---- vocabulary of the properties ---------------------------------------
\* the outcomes the POST awaited at position p can have
OutcomesAt(p) == IF p = "notify" THEN NotifOutcomes ELSE ReqOutcomes(p)

\* the caller's frame after it has handled outcome o of the POST it awaits
After(c, o) ==
  CASE pc[c] = "initialize" -> OnInitialize(Base(c), o)
    [] pc[c] = "notify" -> OnNotify(Base(c), o)
    [] pc[c] = "tools_list" -> OnToolsList(Base(c), o)
    [] pc[c] = "tools_call" -> OnToolsCall(Base(c), o)

\* this step is caller c handling outcome o of the POST it awaits
Handles(c, o) ==
  /\ pc[c] \in RoundTripPcs
  /\ o \in OutcomesAt(pc[c])
  /\ Commit(c, After(c, o))

\* the exception the round trip itself raised on outcome o (NoErr: none)
RoundTripExc(c, o) ==
  IF pc[c] = "notify"
  THEN PostNotificationResponse(Base(c), o).exc
  ELSE PostJsonrpcResponse(Base(c), o).exc

\* caller c is inside the handshake of a connect()
InHandshake(c) ==
  op[c] \in {"connect", "call_tool"} /\ pc[c] \in {"initialize", "notify", "tools_list"}

\* this step puts a message of caller c on the wire
Sends(c) == pc'[c] \in RoundTripPcs /\ pc'[c] # pc[c]

\* ---- C1 ------------------------------------------------------------------
\* the texts the claim classifies: "No valid session" and "Session not found"
\* indicate a stale session, the others do not
StaleTexts == {"NoValidSession", "SessionNotFound"}

\* what C1 says of caller c handling outcome o of its tools/call: S is the
\* caller's frame afterwards, e the exception the round trip raised
C1_Step(c, o, S, e) ==
  /\ \* first failure, stale text: reconnect, nothing else
     (e.kind = "MCPError" /\ ~retrying[c] /\ o.m \in StaleTexts)
       => /\ S.ret = NoErr /\ S.pc = "initialize"
          /\ S.ninit = nInit[c] + 1 /\ S.ncall = nCall[c]
  /\ \* first failure, other text: leaves call_tool at once
     (e.kind = "MCPError" /\ ~retrying[c] /\ o.m \notin StaleTexts)
       => /\ S.ret = e
          /\ S.ninit = nInit[c] /\ S.ncall = 1 /\ S.sentnow = 0
  /\ \* the retry fails: leaves call_tool, whatever its text
     (retrying[c] /\ e # NoErr)
       => /\ S.ret = e
          /\ S.ninit = nInit[c] /\ S.ncall = 2 /\ S.sentnow = 0

\* C1: when the first tools/call of a call_tool fails with a protocol error
\* whose text indicates a stale session, the call performs exactly one
\* reconnect (one more initialize) and, once that handshake has returned,
\* exactly one retry of tools/call, and whatever the retry raises leaves
\* call_tool with nothing more sent; when the text does not indicate a stale
\* session the error leaves call_tool at once, with no reconnect and no second
\* tools/call.
C1_StaleRetryOnce ==
  \A c \in Callers :
    /\ (op[c] = "call_tool" /\ firstFail[c].cls = "stale")
         => /\ nInit[c] = firstFail[c].inits + 1
            /\ nCall[c] = IF pc[c] = "tools_call" THEN 2 ELSE 1
    /\ pc[c] = "tools_call"
         => \A o \in ReqOutcomes("tools_call") :
              C1_Step(c, o, After(c, o), RoundTripExc(c, o))

\* the retry of a call whose first tools/call failed with a stale-session
\* protocol error is in flight
C1_Witness ==
  \E c \in Callers :
    /\ op[c] = "call_tool" /\ pc[c] = "tools_call" /\ retrying[c]
    /\ firstFail[c].cls = "stale" /\ firstFail[c].kind = "MCPError"
    /\ nCall[c] = 2

\* ---- C2 ------------------------------------------------------------------
\* C2: a call_tool invoked on a client on which no connect() has ever
\* returned normally has sent exactly one initialize when its first tools/call
\* goes out.
C2_OneHandshakeBeforeCall ==
  \A c \in Callers :
    (op[c] = "call_tool" /\ fresh[c] /\ pc[c] = "tools_call" /\ nCall[c] = 1)
      => nInit[c] = 1

\* ---- C3 ------------------------------------------------------------------
\* a response that is a success (a result, or an accepted notification) and
\* carries a token other than the held one
ChangesToken(c, o) ==
  /\ _session_id # None
  /\ o.sid \notin {None, _session_id}
  /\ o.t \in {"OK", "Accepted"} /\ o.b \in {"result", "none"}

\* no response that changes the token makes its round trip raise
C3_AdoptsQuietly ==
  \A c \in Callers :
    pc[c] \in RoundTripPcs =>
      \A o \in OutcomesAt(pc[c]) : ChangesToken(c, o) => RoundTripExc(c, o) = NoErr

\* C3: a successful response carrying a token other than the held one raises
\* nothing, the held token is always the one most recently received (None
\* once disconnect() or the stale-session reset cleared it), and every
\* request and notification goes out with that token.
C3_LatestTokenSent ==
  /\ C3_AdoptsQuietly
  /\ _session_id = lastTok
  /\ wire # NoMsg => wire.sid = lastTok

\* the latest step received sid2 while sid1 was held and sent the next
\* message with sid2
C3_Witness ==
  /\ ev.replaced = "sid1" /\ lastTok = "sid2" /\ _session_id = "sid2"
  /\ wire.sid = "sid2"

\* ---- C4 ------------------------------------------------------------------
\* C4: after a round trip or a notification has failed with a connection
\* error (ConnectError, or the timeout reported as MCPConnectionError), alive
\* is false and no session token is held.
C4_ConnectionErrorClears ==
  [][\A c \in Callers :
       pc[c] \in RoundTripPcs =>
         \A o \in OutcomesAt(pc[c]) :
           (o.t \in {"ConnectError", "Timeout"} /\ Handles(c, o))
             => (~alive' /\ _session_id' = None)]_vars

\* ---- C5 ------------------------------------------------------------------
\* C5: when the initialize request or the initialized notification of a
\* connect() raises, alive is false afterwards.
C5_FailedConnectDisconnected ==
  [][\A c \in Callers :
       pc[c] \in {"initialize", "notify"} =>
         \A o \in OutcomesAt(pc[c]) :
           (RoundTripExc(c, o) # NoErr /\ Handles(c, o)) => ~alive']_vars

\* ---- C6 ------------------------------------------------------------------
\* the tools/list of a handshake fails on outcome o: its round trip raises, or
\* (awaiting the notification) it cannot be sent for lack of an HTTP client
DiscoveryFails(c, o) ==
  IF pc[c] = "tools_list"
  THEN RoundTripExc(c, o) # NoErr
  ELSE RoundTripExc(c, o) = NoErr /\ _client = None

\* in frame S of caller c connect() has returned normally (connect() itself
\* returned, or call_tool went on to its tools/call) with an empty catalog
C6_Post(c, S) ==
  /\ S.names = <<>>
  /\ S.ever
  /\ op[c] = "connect" => S.ret = RetOk
  /\ op[c] = "call_tool" => S.ncall = nCall[c] + 1

\* C6: when the tools/list of a handshake fails, connect() returns normally
\* and the catalog is empty afterwards.
C6_DiscoveryFailureEmptiesCatalog ==
  \A c \in Callers :
    (InHandshake(c) /\ pc[c] \in {"notify", "tools_list"}) =>
      \A o \in OutcomesAt(pc[c]) :
        DiscoveryFails(c, o) => C6_Post(c, After(c, o))

\* ---- C7 ------------------------------------------------------------------
\* on outcome o the connect() of caller c returns without raising: its
\* tools/list succeeds or fails with an MCPError
ConnectReturns(c, o) ==
  IF pc[c] = "tools_list"
  THEN RoundTripExc(c, o) = NoErr \/ IsMCPError(RoundTripExc(c, o))
  ELSE DiscoveryFails(c, o)

\* C7: after a connect() that returns without raising, alive is true.
C7_AliveAfterConnect ==
  [][\A c \in Callers :
       (InHandshake(c) /\ pc[c] \in {"notify", "tools_list"}) =>
         \A o \in OutcomesAt(pc[c]) :
           (ConnectReturns(c, o) /\ Handles(c, o)) => alive']_vars

\* ---- C8 ------------------------------------------------------------------
\* C8: at most one request round trip or notification is in flight.
C8_OneInFlight ==
  Cardinality({c \in Callers : pc[c] \in RoundTripPcs}) <= 1

\* ---- C9 ------------------------------------------------------------------
\* C9: while a caller is inside a handshake, no other caller sends a
\* tools/call or starts a handshake.
C9_HandshakeExcludesCalls ==
  [][\A c, d \in Callers :
       (c # d /\ InHandshake(c))
         => ~(Sends(d) /\ pc'[d] \in {"tools_call", "initialize"})]_vars

\* ---- C10 -----------------------------------------------------------------
\* frame S sends the notification without taking an id
C10_NotifyStep(S) ==
  S.pc = "notify" => (S.rid = _req_id /\ S.sentnow = 0)

\* C10: the first request sent has id 1, every request has an id greater
\* than all requests sent before it (so no id is sent twice), whichever
\* callers send them, and sending a notification takes no id.
C10_IdsIncrease ==
  /\ Len(sent) >= 1 => sent[1] = 1
  /\ \A i \in 1..Len(sent) : \A j \in (i + 1)..Len(sent) : sent[i] < sent[j]
  /\ \A c \in Callers :
       pc[c] = "initialize" =>
         \A o \in ReqOutcomes("initialize") : C10_NotifyStep(After(c, o))

\* requests of two callers are in flight and a notification has been sent
C10_Witness ==
  /\ Len(sent) >= 4
  /\ \A c \in Callers : pc[c] \in {"initialize", "tools_list", "tools_call"}
  /\ \E c \in Callers : nInit[c] >= 1 /\ pc[c] # "initialize"

\* ---- C11 -----------------------------------------------------------------
\* the text of a fragment, empty when it has none
TextOf(f) == IF f.text = Absent THEN <<>> ELSE f.text[1]

\* where the i-th of the texts starts in their joined message (0-based)
RECURSIVE Offset(_, _)
Offset(texts, i) ==
  IF i = 1 THEN 0 ELSE Offset(texts, i - 1) + Len(texts[i - 1]) + 1

\* m is the texts in order with exactly one space between neighbours
SpaceJoined(m, texts) ==
  LET n == Len(texts)
  IN /\ Len(m) = IF n = 0 THEN 0 ELSE Offset(texts, n) + Len(texts[n])
     /\ \A i \in 1..n :
          /\ SubSeq(m, Offset(texts, i) + 1, Offset(texts, i) + Len(texts[i])) = texts[i]
          /\ i < n => m[Offset(texts, i) + Len(texts[i]) + 1] = " "

\* C11: on a result with isError true call_tool raises MCPToolError whose
\* message is the fragments' texts in order, separated by single spaces; on a
\* result with isError absent or false it returns the result's content
\* sequence, the empty sequence when the result has none.
C11_ToolResultShape ==
  (input.fn = "call_tool" /\ output # NoOutput) =>
    LET r == input.arg
        content == IF r.content = Absent THEN <<>> ELSE r.content[1]
    IN IF r.isError = Some(TRUE)
       THEN /\ output.val.raises = "MCPToolError"
            /\ SpaceJoined(output.val.message,
                           [i \in 1..Len(content) |-> TextOf(content[i])])
       ELSE /\ output.val.raises = "none"
            /\ output.val.content = content

\* fragments "a", "b" have given the message "a b"
C11_Witness ==
  /\ input.fn = "call_tool" /\ output # NoOutput
  /\ input.arg.content = Some(<<FragA, FragB>>)
  /\ output.val.raises = "MCPToolError"
  /\ output.val.message = <<"a", " ", "b">>

\* ---- C12 -----------------------------------------------------------------
\* frame S of caller c has handled a tools/call result o with isError true:
\* the tool error leaves call_tool, nothing was sent, and the client is as
\* the response found it (the token is the held one, or the one the
\* response's own Mcp-Session-Id header carried)
C12_Step(c, o, S) ==
  /\ S.ret = ToolError(o.m)
  /\ S.ncall = nCall[c] /\ S.ninit = nInit[c]
  /\ S.rid = _req_id /\ S.sentnow = 0 /\ S.msg = NoMsg
  /\ S.conn = _connected /\ S.cl = _client
  /\ S.sess = IF o.sid = None THEN _session_id ELSE o.sid

\* C12: a tools/call result with isError true ends the call with the tool
\* error, whatever its text: no tools/call and no handshake follows it, and
\* alive and the session token are what they were; a call_tool whose
\* tools/call did not fail before has sent exactly one.
C12_ToolErrorTerminal ==
  \A c \in Callers :
    (op[c] = "call_tool" /\ pc[c] = "tools_call") =>
      /\ ~retrying[c] => nCall[c] = 1
      /\ \A o \in ReqOutcomes("tools_call") :
           (o.b = "result" /\ o.isError) => C12_Step(c, o, After(c, o))

\* the latest step raised a tool error whose text looks like a stale
\* session, on a client that is alive and holds a token
C12_Witness ==
  /\ ev.toolError = "NoValidSession"
  /\ alive /\ _session_id # None
  /\ \A c \in Callers : pc[c] = "idle"

\* ---- C13 -----------------------------------------------------------------
Least(S) == CHOOSE x \in S : \A y \in S : x <= y

\* C13: of a batch, the element decoded is the first whose id equals the
\* request's id; when there is none, the first element that has a result
\* field; when there is none either, the round trip raises the protocol
\* error of the batch branch.
C13_BatchSelection ==
  (input.fn = "batch" /\ output # NoOutput) =>
    LET data == input.arg
        matching == {i \in 1..Len(data) : data[i].id = Some(RequestId)}
        bearing == {i \in 1..Len(data) : data[i].result # Absent}
    IN IF matching # {}
       THEN output.val = DecodeObject(data[Least(matching)])
       ELSE IF bearing # {}
       THEN output.val = DecodeObject(data[Least(bearing)])
       ELSE output.val.raises = "MCPError" /\ output.val.src = "batch"

\* no id matches (the first element's id is the string "1", not the number),
\* two elements bear a result, and the first of them was decoded
C13_Witness ==
  /\ input.fn = "batch" /\ output # NoOutput
  /\ input.arg = <<[id |-> Some(StrId("1")), result |-> Some("r2"), error |-> Absent],
                   [id |-> Absent, result |-> Some("r1"), error |-> Absent]>>
  /\ output.val = [raises |-> "none", src |-> "none", result |-> "r2"]

\* ---- C14 -----------------------------------------------------------------
\* the JSON value a line carries as the payload of a data: line, "none" for
\* a line that is no data: line or whose payload is empty or malformed
FrameValue(n) ==
  CASE n = "data1" -> "1"
    [] n = "data2" -> "2"
    [] OTHER -> "none"

\* the values of the parseable frames among the lines, in order
RECURSIVE FrameValues(_)
FrameValues(names) ==
  IF names = <<>> THEN <<>>
  ELSE IF FrameValue(Head(names)) = "none" THEN FrameValues(Tail(names))
  ELSE <<FrameValue(Head(names))>> \o FrameValues(Tail(names))

\* C14: _parse_sse_json yields the JSON payloads of the data: lines in
\* their order: None when no line carries a parseable payload, the value
\* itself when exactly one does, the list of all of them when several do; a
\* malformed payload is skipped, wherever it stands.
C14_SseFrames ==
  (input.fn = "sse" /\ output # NoOutput) =>
    LET expected == FrameValues(input.lines)
    IN /\ Len(expected) = 0 => output.val = PyNoneValue
       /\ Len(expected) = 1 => output.val = PyValue(expected[1])
       /\ Len(expected) > 1 => output.val = PyList(expected)

\* a malformed data: line stood between two valid frames, and both were
\* extracted in order
C14_Witness ==
  /\ input.fn = "sse" /\ output # NoOutput
  /\ input.lines = <<"data2", "badjson", "data1">>
  /\ output.val = PyList(<<"2", "1">>)

\* ---- C15 -----------------------------------------------------------------
\* no connect() is past the step that marks the client connected
NoConnectCompleting == \A c \in Callers : ~(InHandshake(c) /\ pc[c] = "tools_list")

\* C15: uptime is 0 as long as no connect() has returned without raising
\* (and none is about to); the handshake that makes the client connected
\* takes the clock reading from which uptime is measured.
C15_UptimeFromSuccessfulConnect ==
  /\ (~everConnected /\ NoConnectCompleting) => uptime = 0
  /\ \A c \in Callers :
       (InHandshake(c) /\ pc[c] = "notify") =>
         \A o \in NotifOutcomes :
           RoundTripExc(c, o) = NoErr =>
             (After(c, o).conn /\ After(c, o).at = now)

\* ---- C16 -----------------------------------------------------------------
\* C16: once disconnect() has completed on a client, uptime is 0 until the
\* next connect: with no method in progress, uptime is positive only while
\* alive is true.
C16_UptimeZeroWhileNotAlive ==
  /\ \A c \in Callers :
       (op[c] = "disconnect" /\ pc[c] = "aclose" /\ everConnected) =>
         LET S == DisconnectFinish(Base(c))
         IN S.ret = RetOk /\ (S.at = 0 \/ now - S.at = 0)
  /\ ((\A c \in Callers : pc[c] = "idle") /\ ~alive) => uptime = 0

\* ---- C17 -----------------------------------------------------------------
\* frame S is a disconnect() that has returned normally and left the client
\* stopped
C17_Stopped(S) ==
  /\ S.ret = RetOk
  /\ ~(S.conn /\ S.cl # None)
  /\ S.sess = None
  /\ S.cl = None

\* C17: disconnect() does not raise in any state of the client (never
\* connected, connected, already stopped); when it returns alive is false,
\* the session token is cleared and no HTTP client is held.
C17_ShutdownIdempotent ==
  \A c \in Callers :
    /\ pc[c] = "idle" =>
         LET S == disconnect(Invoke(c, "disconnect"))
         IN IF _client = None THEN C17_Stopped(S)
            ELSE S.ret = NoErr /\ S.pc = "aclose"
    /\ (op[c] = "disconnect" /\ pc[c] = "aclose") =>
         C17_Stopped(DisconnectFinish(Base(c)))

\* the latest step was a disconnect() on a client that had been connected
\* and was already stopped
C17_Witness ==
  /\ ev.noClient /\ everConnected
  /\ ~alive /\ _session_id = None /\ _client = None

\* ---- C18 -----------------------------------------------------------------
\* C18: alive is false while a handshake is in progress.
C18_NotAliveWhileHandshaking ==
  \A c \in Callers : InHandshake(c) => ~alive

\* ---- C19 -----------------------------------------------------------------
\* what ensure_connected does for caller c invoking call_tool in this state
C19_Start(c) ==
  LET S0 == Invoke(c, "call_tool")
      S == EnsureConnected(S0)
  IN IF ~alive \/ _session_id = None
     THEN /\ S.pc = "initialize" /\ S.ninit = 1
          /\ S.rid = _req_id + 1 /\ S.sentnow = S.rid /\ S.msg # NoMsg
     ELSE S = S0

\* this step of a call_tool of caller c keeps the order of the connect
\* sequence: tools/call follows either an ensure_connected that had nothing
\* to do or the tools/list of a handshake, which follows its notification,
\* which follows its initialize
C19_Order(c) ==
  (op'[c] = "call_tool" /\ pc'[c] # pc[c]) =>
    /\ pc'[c] = "tools_call" =>
         \/ pc[c] = "idle" /\ alive /\ _session_id # None
         \/ pc[c] = "tools_list"
    /\ pc'[c] = "tools_list" => pc[c] = "notify"
    /\ pc'[c] = "notify" => pc[c] = "initialize"

\* C19: ensure_connected starts the connect sequence when the client is not
\* alive, and also when it is alive without a session token; otherwise it
\* sends nothing. A call_tool that had to connect reaches its tools/call only
\* through initialize, notification and tools/list.
C19_EnsureConnected ==
  /\ [](\A c \in Callers : pc[c] = "idle" => C19_Start(c))
  /\ [][\A c \in Callers : C19_Order(c)]_vars

\* the latest step was a call_tool on a connected, live client that held no
\* session token: ensure_connected sent the initialize of a new handshake
C19_Witness ==
  /\ ev.reinit /\ everConnected
  /\ \E c \in Callers :
       /\ op[c] = "call_tool" /\ pc[c] = "initialize" /\ ~retrying[c]
       /\ nInit[c] = 1 /\ nCall[c] = 0

\* ---- C20 -----------------------------------------------------------------
\* this step changes the catalog
C20_CatalogChanges == _available_tool_names' # _available_tool_names

\* this step is the end of the tools/list step of a handshake (the step in
\* which _discover_tools gets its answer or fails to send its request)
C20_DiscoveryStep ==
  \E c \in Callers :
    /\ InHandshake(c) /\ pc[c] \in {"notify", "tools_list"}
    /\ pc'[c] # pc[c]

\* C20: a consumer that mutates the list it read from tool_names changes
\* neither the catalog nor what the next read returns; the read changes no
\* state of the client; the catalog changes only in the tools/list step of
\* a handshake.
C20_ToolNamesIsCopy ==
  /\ [](output # NoOutput =>
          /\ output.afterRead = output.before
          /\ output.second = output.before)
  /\ [][output' # output =>
          (_available_tool_names' = _available_tool_names /\ UNCHANGED clientVars)]_vars
  /\ [][C20_CatalogChanges => C20_DiscoveryStep]_vars

\* a consumer has mutated the list it read from a non-empty catalog, and
\* the catalog still holds the discovered names
C20_Witness ==
  /\ output # NoOutput
  /\ output.before # <<>> /\ output.returned # output.before
  /\ output.second = output.before
  /\ _available_tool_names = output.before

\* ---- C21 -----------------------------------------------------------------
\* C21: health_check sends one tools/list request in whatever state the
\* client is, and returns True when that round trip succeeds and False when
\* it fails, whatever the failure; it never raises.
C21_HealthCheckNeverRaises ==
  \A c \in Callers :
    /\ pc[c] = "idle" =>
         LET S == health_check(Invoke(c, "health_check"))
         IN /\ S.ret = NoErr /\ S.pc = "tools_list"
            /\ S.rid = _req_id + 1 /\ S.sentnow = S.rid /\ S.msg # NoMsg
    /\ (op[c] = "health_check" /\ pc[c] = "tools_list") =>
         \A o \in ReqOutcomes("tools_list") :
           After(c, o).ret =
             IF RoundTripExc(c, o) = NoErr THEN RetTrue ELSE RetFalse

\* the latest step was a health_check returning False on a client on which
\* no handshake ever got as far as marking it connected
C21_Witness ==
  /\ ev.probe = "False"
  /\ ~everConnected /\ _connected_at = 0 /\ ~alive

\* ---- C22 -----------------------------------------------------------------
\* the status code and the separator in the text of an HTTP status error
StatusText == <<"H","T","T","P"," ","4","0","4",":"," ">>

\* C22: a refused connection raises the connection-error kind, a timeout
\* raises a kind different from it, and an HTTP error status raises the
\* protocol-error kind with the status code and the body in its text.
C22_TransportErrorKinds ==
  \A c \in Callers :
    pc[c] \in {"initialize", "tools_list", "tools_call"} =>
      \A o1, o2 \in ReqOutcomes(pc[c]) :
        /\ o1.t = "ConnectError" =>
             RoundTripExc(c, o1).kind = "MCPConnectionError"
        /\ (o1.t = "ConnectError" /\ o2.t = "Timeout") =>
             /\ RoundTripExc(c, o2) # NoErr
             /\ RoundTripExc(c, o2).kind # RoundTripExc(c, o1).kind
        /\ o1.t = "HTTPStatus" =>
             /\ RoundTripExc(c, o1).kind = "MCPError"
             /\ Contains(StatusText \o Text(o1.m), Str(RoundTripExc(c, o1)))

\* ---- C23 -----------------------------------------------------------------
\* C23: when the response object that _post_jsonrpc settles on carries an
\* error field, the round trip raises the error built from its code and
\* message; when it carries neither result nor error, the round trip raises
\* as well.
C23_ErrorOrResultRequired ==
  (input.fn = "batch" /\ output # NoOutput) =>
    LET k == PickFromBatch(input.arg, RequestId)
    IN k # 0 =>
         /\ input.arg[k].error # Absent =>
              (output.val.raises = "MCPError" /\ output.val.src = "rpc")
         /\ (input.arg[k].error = Absent /\ input.arg[k].result = Absent) =>
              output.val.raises # "none"

\* ---- C24 -----------------------------------------------------------------
\* C24: when the initialize result declares a protocol version other than
\* the one the client sent, connect() raises and the client is not alive.
C24_VersionMismatchFails ==
  \A c \in Callers :
    (InHandshake(c) /\ pc[c] = "initialize") =>
      \A o \in ReqOutcomes("initialize") :
        (o.t = "OK" /\ o.b = "result" /\ o.ver # ProtocolVersion) =>
          LET S == After(c, o)
          IN /\ S.ret \notin {NoErr, RetOk}
             /\ ~(S.conn /\ S.cl # None)

\* ---- C25 -----------------------------------------------------------------
\* C25: when the tools/call round trip of a call_tool fails with a timeout
\* or a connection error, call_tool raises that error at once, whatever its
\* text: it sends no further request and starts no handshake.
C25_TransportFailureNotRetried ==
  \A c \in Callers :
    (op[c] = "call_tool" /\ pc[c] = "tools_call") =>
      \A o \in ReqOutcomes("tools_call") :
        o.t \in {"ConnectError", "Timeout"} =>
          LET S == After(c, o)
          IN /\ S.ret = RoundTripExc(c, o)
             /\ S.ninit = nInit[c] /\ S.ncall = nCall[c]
             /\ S.sentnow = 0

\* ---- C26 -----------------------------------------------------------------
\* C26: with a non-empty token configured, a request reaches the
\* application exactly when its path is public or its Authorization header
\* is "Bearer " followed by the token; every other request is answered 401.
C26_BearerGate ==
  (input.fn = "dispatch" /\ output # NoOutput
     /\ input.arg.token \notin {Absent, Some(<<>>)}) =>
    LET q == input.arg
        allowed == \/ q.path \in PublicPaths
                   \/ q.auth = Some(TextBearer \o q.token[1])
    IN /\ output.val.reached <=> allowed
       /\ ~allowed => output.val.status = 401

\* a protected path was requested with the token followed by one more
\* character, and was answered 401
C26_Witness ==
  /\ input.fn = "dispatch" /\ output # NoOutput
  /\ input.arg.token = Some(TextToken) /\ input.arg.path = "/protected"
  /\ input.arg.auth = Some(TextBearer \o TextToken \o <<" ">>)
  /\ output.val = Refuse(401)

\* ---- C27 -----------------------------------------------------------------
\* the spellings of "true" among the values tried
TrueSpellings ==
  {Some(TextTrue), Some(<<"T", "R", "U", "E">>), Some(<<"T", "r", "u", "e">>)}

C29_Handshake(c) ==
  /\ pc[c] = "initialize" =>
       \A o \in ReqOutcomes("initialize") :
         LET S == After(c, o)
         IN /\ S.pc \in {"initialize", "notify"}
            /\ S.pc = "notify" <=> (S.ret = NoErr /\ S.msg # NoMsg)
            /\ S.pc = "notify" => (o.t = "OK" /\ o.b = "result")
            /\ S.sentnow = 0
  /\ pc[c] = "notify" =>
       \A o \in NotifOutcomes :
         LET S == After(c, o)
         IN /\ S.pc = "tools_list" =>
                 (o.t \in {"Accepted", "Status4xx"} /\ S.sentnow = _req_id + 1)
            /\ (o.t = "Status4xx" /\ _client # None) =>
                 (S.pc = "tools_list" /\ S.ret = NoErr)

\* C29: a connect() sends initialize first; the notification goes out only
\* once initialize returned a result, tools/list only once the POST of the
\* notification got a response; a response with an HTTP error status lets
\* the handshake go on.
C29_HandshakeOrder ==
  \A c \in Callers :
    /\ pc[c] = "idle" =>
         LET S == connect(Invoke(c, "connect"))
         IN S.pc = "initialize" /\ S.sentnow = _req_id + 1
    /\ InHandshake(c) => C29_Handshake(c)

\* the latest step handled a notification answered with an HTTP error
\* status, and its connect() now awaits tools/list
C29_Witness ==
  /\ ev.notif4xx
  /\ \E c \in Callers : op[c] = "connect" /\ pc[c] = "tools_list"

\* ---- C30 -----------------------------------------------------------------
\* frame S does not send an initialize that carries a session token
C30_NoTokenOnInitialize(S) ==
  (S.pc = "initialize" /\ S.msg # NoMsg) => S.msg.sid = None

\* C30: the initialize request of a connect() carries no session token,
\* whether connect() is called directly, by ensure_connected, or by the
\* stale-session handler of call_tool.
C30_InitializeWithoutOldToken ==
  \A c \in Callers :
    /\ pc[c] = "idle" =>
         /\ C30_NoTokenOnInitialize(connect(Invoke(c, "connect")))
         /\ C30_NoTokenOnInitialize(EnsureConnected(Invoke(c, "call_tool")))
    /\ (op[c] = "call_tool" /\ pc[c] = "tools_call") =>
         \A o \in ReqOutcomes("tools_call") :
           C30_NoTokenOnInitialize(After(c, o))

\* ---- C33 -----------------------------------------------------------------
\* frame S is alive
AliveIn(S) == S.conn /\ S.cl # None

\* C33: no step of a health_check turns alive from false to true, and after
\* it the next call_tool starts with a handshake.
C33_HealthCheckKeepsNotAlive ==
  \A c \in Callers :
    ~alive =>
      /\ pc[c] = "idle" =>
           LET S == health_check(Invoke(c, "health_check"))
           IN /\ ~AliveIn(S)
              /\ EnsureConnected([S EXCEPT !.op = "call_tool"]).ninit = S.ninit + 1
      /\ (op[c] = "health_check" /\ pc[c] = "tools_list") =>
           \A o \in ReqOutcomes("tools_list") :
             LET S == After(c, o)
             IN /\ ~AliveIn(S)
                /\ EnsureConnected([S EXCEPT !.op = "call_tool"]).ninit = S.ninit + 1

\* ---- C32 -----------------------------------------------------------------
\* no caller other than c is inside the client
OnlyCaller(c) == \A d \in Callers \ {c} : pc[d] = "idle"

\* C32: a connect() never replaces a held HTTP client without closing it,
\* whether connect() is called directly, by ensure_connected, or by the
\* stale-session handler of call_tool (with no other call in progress).
C32_ReconnectClosesOldClient ==
  \A c \in Callers :
    OnlyCaller(c) =>
      /\ pc[c] = "idle" =>
           /\ connect(Invoke(c, "connect")).dropped = None
           /\ EnsureConnected(Invoke(c, "call_tool")).dropped = None
      /\ (op[c] = "call_tool" /\ pc[c] = "tools_call") =>
           \A o \in ReqOutcomes("tools_call") : After(c, o).dropped = None

\* ---- C34 -----------------------------------------------------------------
\* the body made of these lines is a JSON text: one line holding a value,
\* and blank lines
PlainJson(names) ==
  /\ Cardinality({i \in 1..Len(names) : names[i] = "json1"}) = 1
  /\ \A i \in 1..Len(names) : names[i] \in {"json1", "blank"}

\* what SSE extraction gives for these frames
Extracted(frames) ==
  IF Len(frames) = 1 THEN PyValue(frames[1]) ELSE PyList(frames)

\* the decoding succeeded with data d
Decoded(d) == output.val.raises = "none" /\ output.val.data = d

\* C34: a body declared an event stream is decoded by SSE extraction, and
\* fails with MCPError when no frame can be extracted; any other body is
\* decoded as JSON, and when it is no JSON text, by SSE extraction, failing
\* with MCPError only when that yields no frame either.
C34_BodyDecoding ==
  (input.fn = "decode" /\ output # NoOutput) =>
    LET frames == FrameValues(input.lines)
        stream == input.ct \in {"sse", "sse-charset"}
    IN /\ (stream \/ ~PlainJson(input.lines)) =>
            IF frames = <<>>
            THEN output.val.raises = "MCPError"
            ELSE Decoded(Extracted(frames))
       /\ (~stream /\ PlainJson(input.lines)) => Decoded(PyValue("1"))

\* a body declared JSON was no JSON text, and its one SSE frame was
\* extracted
C34_Witness ==
  /\ input.fn = "decode" /\ output # NoOutput
  /\ input.ct = "json" /\ input.lines = <<"event", "data2">>
  /\ Decoded(PyValue("2"))

\* ---- C31: recovery without disconnect() ---------------------------------
\* call_tool invocations tried from a state, and the round trips one
\* invocation may take (two handshakes and two tools/call)
MaxCalls == 3
MaxRoundTrips == 8

\* the tokens the backend of the claim hands out, none of them issued before
NewSids == <<"new1", "new2", "new3", "new4", "new5", "new6", "new7", "new8",
             "new9", "new10">>

\* the backend of the claim: reachable; it answers a request that carries no
\* token it issued with a stale-session error (an initialize without token
\* excepted), an initialize with a token not issued before, and everything
\* else with a result.  B.valid are the tokens it issued, B.n counts them.
Rejects(method, sid, B) ==
  IF sid = None THEN method # "initialize" ELSE sid \notin B.valid

Answer(method, sid, B) ==
  IF Rejects(method, sid, B)
  THEN IF method = "notify"
       THEN Outcome("Status4xx", "none", None, "none", <<>>, FALSE)
       ELSE Outcome("OK", "NoValidSession", None, "error", <<>>, FALSE)
  ELSE CASE method = "initialize" ->
              Outcome("OK", "none", NewSids[B.n + 1], "result", <<>>, FALSE)
         [] method = "notify" ->
              Outcome("Accepted", "none", None, "none", <<>>, FALSE)
         [] method = "tools_list" ->
              Outcome("OK", "none", None, "result", <<"search">>, FALSE)
         [] OTHER ->
              Outcome("OK", "none", None, "result", <<>>, FALSE)

Issues(method, sid, B) ==
  IF method = "initialize" /\ ~Rejects(method, sid, B)
  THEN [valid |-> B.valid \cup {NewSids[B.n + 1]}, n |-> B.n + 1]
  ELSE B

\* the caller's frame when its awaited POST completes with outcome o
OnResponse(S, o) ==
  CASE S.pc = "initialize" -> OnInitialize(S, o)
    [] S.pc = "notify" -> OnNotify(S, o)
    [] S.pc = "tools_list" -> OnToolsList(S, o)
    [] OTHER -> OnToolsCall(S, o)

\* a call_tool suspended at an await runs to its end against that backend
RECURSIVE RunToEnd(_, _, _)
RunToEnd(S, B, k) ==
  IF S.ret # NoErr \/ k = 0
  THEN [S |-> S, B |-> B]
  ELSE RunToEnd(OnResponse(S, Answer(S.pc, S.msg.sid, B)),
                Issues(S.pc, S.msg.sid, B), k - 1)

\* the frame of the next call_tool of the only caller, the previous call
\* having left the client's fields as in S
EnterCallTool(S) ==
  LET S0 == [S EXCEPT !.op = "call_tool", !.pc = "idle", !.retry = FALSE,
                      !.ret = NoErr, !.msg = NoMsg, !.exc = NoErr,
                      !.ninit = 0, !.ncall = 0, !.ff = NoFail,
                      !.fresh = ~S.ever]
      S1 == EnsureConnected(S0)
  IN IF S1.pc = "initialize" THEN S1 ELSE CallToolSend(S1)

\* one whole call_tool
RunCallTool(S, B) == RunToEnd(EnterCallTool(S), B, MaxRoundTrips)

\* one of the next k call_tool invocations returns the tool's content
RECURSIVE Recovers(_, _, _)
Recovers(S, B, k) ==
  /\ k > 0
  /\ LET r == RunCallTool(S, B)
     IN r.S.ret = RetOk \/ Recovers(r.S, r.B, k - 1)

\* C31: from every state reached by calls issued one at a time, with no
\* call in progress, and whichever of the old tokens the backend still
\* accepts, one of the next MaxCalls call_tool invocations against the
\* well-behaved backend returns the tool's content.
C31_RecoversWithoutDisconnect ==
  pc["a"] = "idle" =>
    \A valid \in SUBSET Sids :
      Recovers(Base("a"), [valid |-> valid, n |-> 0], MaxCalls)

====
